---- MODULE Spec2Model ----
(***************************************************************************)
(* Kids Trainer Marketplace (main.py): the SQLite store of trainers,       *)
(* parents and bookings, and the request handlers that read and write it.  *)
(*                                                                         *)
(* Every handler opens its own connection (get_db) and runs its SQL        *)
(* statements one after the other.  The model takes one step per SQL       *)
(* statement, so that requests served by different workers interleave at   *)
(* statement granularity, and gives each connection SQLite's behaviour as  *)
(* Python's sqlite3 module drives it with the defaults get_db leaves in    *)
(* place: an implicit BEGIN before the first INSERT of a connection, one   *)
(* writer at a time (the others wait in the busy handler), readers see     *)
(* the committed store, foreign keys are not enforced, a NaN bound to a    *)
(* REAL column is stored as NULL.                                          *)
(*                                                                         *)
(* Within one event loop the statements of book_trainer and                *)
(* register_trainer run without an await between them; those runs are the  *)
(* behaviours in which one request's statements are consecutive.  Several  *)
(* worker processes on the same db.sqlite3 give the other interleavings.   *)
(***************************************************************************)
EXTENDS Integers, Sequences, FiniteSets, TLC

\* ------------------------------------------------------------------ bounds
\* Operations the model lets start after the first startup: requests of any
\* kind, and further runs of create_tables.
MaxOps == 3

\* Requests in flight at the same time.
Slots == {"r1", "r2"}
Before(q, r) == q = "r1" /\ r = "r2"

\* ------------------------------------------------------------------ inputs
\* Path parameter of /book/{trainer_id}: the identity of the first Trainer
\* row, and one that no Trainer row ever has.
PathIds == {1, MaxOps + 1}

BookForm(name, email, phone) ==
  [parent_name |-> name, parent_email |-> email, parent_phone |-> phone,
   date |-> "2024-06-01", time |-> "10:00"]

\* Booking forms as parse_qs returns them (a key with a blank value is
\* absent): a parent, the same (email, phone) pair under another name, the
\* same email with another phone, and the same phone with another email.
\* No form carries notes, which is optional.
BookForms ==
  { BookForm("Alice", "a@x.com", "555-1111"),
    BookForm("Bob", "a@x.com", "555-1111"),
    BookForm("Alice", "a@x.com", "555-2222"),
    BookForm("Bob", "b@x.com", "555-1111") }

\* Price strings, as sequences of characters.
PriceInputs ==
  { <<"4", "9", ".", "9", "5">>,
    <<"a", "b", "c">>,
    <<"-", "5">>,
    <<"n", "a", "n">> }

\* Registration forms: the same profile with each price string, and the
\* profile with no price key.
RegisterForms ==
  { [name |-> "Jane Doe", sport |-> "Tennis", price |-> p] : p \in PriceInputs }
  \cup { [name |-> "Jane Doe", sport |-> "Tennis"] }

\* ------------------------------------------------------------ form lookup
\* form_data.get(key, [default])[0]
Get(form, key, default) ==
  IF key \in DOMAIN form THEN form[key] ELSE default

\* ------------------------------------------------------------------ float
Digits == {"0", "1", "2", "3", "4", "5", "6", "7", "8", "9"}

DigitVal(c) ==
  CASE c = "0" -> 0 [] c = "1" -> 1 [] c = "2" -> 2 [] c = "3" -> 3
    [] c = "4" -> 4 [] c = "5" -> 5 [] c = "6" -> 6 [] c = "7" -> 7
    [] c = "8" -> 8 [] c = "9" -> 9

IsDigits(s) == \A i \in 1..Len(s) : s[i] \in Digits

RECURSIVE ToInt(_)
ToInt(s) ==
  IF s = <<>> THEN 0
  ELSE 10 * ToInt(SubSeq(s, 1, Len(s) - 1)) + DigitVal(s[Len(s)])

RECURSIVE Strip(_)
Strip(s) ==
  IF s = <<>> THEN s
  ELSE IF s[1] = " " THEN Strip(Tail(s))
  ELSE IF s[Len(s)] = " " THEN Strip(SubSeq(s, 1, Len(s) - 1))
  ELSE s

LowerChar(c) ==
  CASE c = "N" -> "n" [] c = "A" -> "a" [] c = "I" -> "i" [] c = "F" -> "f"
    [] c = "T" -> "t" [] c = "Y" -> "y" [] OTHER -> c

Lower(s) == [i \in 1..Len(s) |-> LowerChar(s[i])]

\* A decimal m * 10^(-s) with no trailing zero in its fraction.
RECURSIVE Normal(_, _)
Normal(m, s) ==
  IF s > 0 /\ m % 10 = 0 THEN Normal(m \div 10, s - 1)
  ELSE [kind |-> "real", m |-> m, s |-> s]

Zero == Normal(0, 0)
NaN == [kind |-> "nan", m |-> 0, s |-> 0]
Inf(sign) == [kind |-> "inf", m |-> sign, s |-> 0]

\* float(price): the value, or ValueError (ok = FALSE).  The grammar is the
\* part of Python's that the inputs use: surrounding blanks, a sign, nan,
\* inf, infinity, digits with at most one point.  Values are exact decimals
\* (binary rounding, exponents and digit separators are left out).
Float(str) ==
  LET t == Strip(str)
      signed == t # <<>> /\ t[1] \in {"+", "-"}
      sign == IF t # <<>> /\ t[1] = "-" THEN -1 ELSE 1
      body == IF signed THEN Tail(t) ELSE t
      low == Lower(body)
      dots == {i \in 1..Len(body) : body[i] = "."}
  IN IF low = <<"n", "a", "n">> THEN [ok |-> TRUE, val |-> NaN]
     ELSE IF low \in {<<"i", "n", "f">>,
                      <<"i", "n", "f", "i", "n", "i", "t", "y">>}
       THEN [ok |-> TRUE, val |-> Inf(sign)]
     ELSE IF dots = {} /\ body # <<>> /\ IsDigits(body)
       THEN [ok |-> TRUE, val |-> Normal(sign * ToInt(body), 0)]
     ELSE IF Cardinality(dots) = 1
       THEN LET i == CHOOSE j \in dots : TRUE
                ip == SubSeq(body, 1, i - 1)
                fp == SubSeq(body, i + 1, Len(body))
            IN IF IsDigits(ip) /\ IsDigits(fp) /\ Len(ip) + Len(fp) >= 1
                 THEN [ok |-> TRUE,
                       val |-> Normal(sign * ToInt(ip \o fp), Len(fp))]
                 ELSE [ok |-> FALSE, val |-> Zero]
     ELSE [ok |-> FALSE, val |-> Zero]

\* try: price_val = float(price) / except ValueError: price_val = 0.0
PriceVal(price) ==
  LET f == Float(price) IN IF f.ok THEN f.val ELSE Zero

\* ------------------------------------------------------------------ store
VARIABLES
  db,      \* the committed content of db.sqlite3
  lock,    \* the slot whose connection holds the write lock, or NoLock
  req,     \* per slot: the request it serves and that handler's locals
  boot,    \* create_tables: its position and the runs completed
  issued   \* operations started since the first startup

vars == <<db, lock, req, boot, issued>>

NoLock == "none"

TableNames == <<"trainers", "parents", "bookings">>

\* The database file before the first startup: no table.
EmptyStore ==
  [tables |-> <<>>, trainers |-> {}, parents |-> {}, bookings |-> {},
   seq |-> [trainers |-> 0, parents |-> 0, bookings |-> 0]]

HasTable(d, name) == \E i \in 1..Len(d.tables) : d.tables[i] = name

Max(a, b) == IF a >= b THEN a ELSE b

RECURSIVE MaxId(_)
MaxId(rows) ==
  IF rows = {} THEN 0
  ELSE LET x == CHOOSE y \in rows : TRUE IN Max(x.id, MaxId(rows \ {x}))

\* INTEGER PRIMARY KEY AUTOINCREMENT: one more than the largest identity
\* the table has ever held (sqlite_sequence).
NextId(d, name) == Max(d.seq[name], MaxId(d[name])) + 1

\* DROP TABLE IF EXISTS name; CREATE TABLE name (...): the table is emptied
\* on every startup.
DropAndCreateTable(d, name) ==
  [d EXCEPT !.tables = IF HasTable(d, name) THEN @ ELSE Append(@, name),
            ![name] = {}]

\* CREATE TABLE IF NOT EXISTS name (...)
CreateTableIfNotExists(d, name) ==
  IF HasTable(d, name) THEN d
  ELSE [d EXCEPT !.tables = Append(@, name), ![name] = {}]

\* What sqlite3 binds for a Python float: NaN becomes NULL.
Null == [kind |-> "null", m |-> 0, s |-> 0]
BindReal(v) == IF v.kind = "nan" THEN Null ELSE v

\* price REAL NOT NULL
PriceNotNull(v) == v.kind # "null"

\* A parents table declared without UNIQUE(email, phone).
ParentsUnconstrained(rows, email, phone) == TRUE

\* UNIQUE(email, phone) on parents
ParentsUnique(rows, email, phone) ==
  ~ \E p \in rows : p.email = email /\ p.phone = phone

\* get_db issues no PRAGMA foreign_keys = ON: SQLite parses the FOREIGN KEY
\* clauses of bookings and does not enforce them.
ForeignKeysEnforced == FALSE

ForeignKeysOk(d, parent_id, trainer_id) ==
  ForeignKeysEnforced =>
    /\ \E p \in d.parents : p.id = parent_id
    /\ \E t \in d.trainers : t.id = trainer_id

\* A bookings table declared with UNIQUE(trainer_id, date, time).
BookingsSlotUnique(rows, trainer_id, date, time) ==
  ~ \E b \in rows :
      b.trainer_id = trainer_id /\ b.date = date /\ b.time = time

\* The bookings table declares no UNIQUE constraint.
BookingsConstraint(rows, trainer_id, date, time) == TRUE

\* The outcome of an INSERT: the store after it and the new rowid, or
\* IntegrityError (ok = FALSE) with the store as it was.
Inserted(d, name, row) ==
  [ok |-> TRUE,
   db |-> [d EXCEPT ![name] = @ \cup {row}, !.seq[name] = row.id],
   lastrowid |-> row.id]

Failed(d) == [ok |-> FALSE, db |-> d, lastrowid |-> 0]

\* INSERT INTO trainers (name, sport, credentials, bio, price, email, phone)
InsertTrainer(d, v) ==
  LET row == [id |-> NextId(d, "trainers"), name |-> v.name, sport |-> v.sport,
              credentials |-> v.credentials, bio |-> v.bio,
              price |-> BindReal(v.price), email |-> v.email, phone |-> v.phone]
  IN IF PriceNotNull(row.price) THEN Inserted(d, "trainers", row) ELSE Failed(d)

\* INSERT INTO parents (name, email, phone)
InsertParent(d, name, email, phone) ==
  LET row == [id |-> NextId(d, "parents"), name |-> name,
              email |-> email, phone |-> phone]
  IN IF ParentsUnique(d.parents, email, phone)
       THEN Inserted(d, "parents", row) ELSE Failed(d)

\* INSERT INTO bookings (parent_id, trainer_id, date, time, notes)
InsertBooking(d, parent_id, trainer_id, date, time, notes) ==
  LET row == [id |-> NextId(d, "bookings"), parent_id |-> parent_id,
              trainer_id |-> trainer_id, date |-> date, time |-> time,
              notes |-> notes]
  IN IF /\ ForeignKeysOk(d, parent_id, trainer_id)
        /\ BookingsConstraint(d.bookings, trainer_id, date, time)
       THEN Inserted(d, "bookings", row) ELSE Failed(d)

\* SELECT id FROM parents WHERE email = ? : the phone is left out.
SelectParentByEmail(d, email, phone) ==
  LET hit == {p \in d.parents : p.email = email}
  IN IF hit = {} THEN <<>>
     ELSE <<(CHOOSE p \in hit : \A q \in hit : p.id <= q.id).id>>

\* SELECT id FROM parents WHERE email = ? AND phone = ? ; fetchone()
\* The result is <<>> for None and <<id>> for a row.
SelectParent(d, email, phone) ==
  LET hit == {p \in d.parents : p.email = email /\ p.phone = phone}
  IN IF hit = {} THEN <<>>
     ELSE <<(CHOOSE p \in hit : \A q \in hit : p.id <= q.id).id>>

\* SELECT * FROM trainers WHERE id = ? ; fetchone()
SelectTrainer(d, trainer_id) ==
  LET hit == {t \in d.trainers : t.id = trainer_id}
  IN IF hit = {} THEN <<>> ELSE <<CHOOSE t \in hit : TRUE>>

\* sqlite3.connect(DB_PATH, isolation_level=None): every statement is
\* committed as it runs.
Autocommit(committed, written) ==
  [db |-> written, tx |-> <<>>]

\* sqlite3.connect(DB_PATH) keeps the default isolation level: the first
\* INSERT of a connection opens a transaction, and what it writes stays
\* private to the connection until commit().
ImplicitTransaction(committed, written) ==
  [db |-> committed, tx |-> <<written>>]

\* --------------------------------------------------------------- requests
\* A slot that serves no request.
Idle ==
  [pc |-> "idle", kind |-> "none", trainer_id |-> 0, args |-> [none |-> ""],
   row |-> <<>>, parent_id |-> 0, lastrowid |-> 0, conn |-> "none",
   tx |-> <<>>, exc |-> "", resp |-> <<>>, peers |-> {}]

\* RedirectResponse(location, status_code=303)
Redirect(location) ==
  [raised |-> FALSE, status |-> 303, location |-> location,
   template |-> "", data |-> <<>>]

\* templates.TemplateResponse(template, {..., data})
Template(template, data) ==
  [raised |-> FALSE, status |-> 200, location |-> "",
   template |-> template, data |-> <<data>>]

\* An exception that leaves the handler.
Raised(exc) ==
  [raised |-> TRUE, status |-> 500, location |-> "", template |-> exc,
   data |-> <<>>]

\* The slot can take a new request: it serves none, or its last request has
\* ended and its connection is closed.
Ended(r) ==
  \/ req[r].pc \in {"idle", "done"}
  \/ req[r].pc = "faulted" /\ req[r].conn = "closed"

\* A new request goes to the first slot that can take one.
Free(r) == Ended(r) /\ \A q \in Slots : Ended(q) => ~ Before(q, r)

\* The handler of the slot's request has not returned or raised yet.
Running(r) == req[r].pc \notin {"idle", "done", "faulted"}

\* The slot takes a request whose handler starts as rec.  peers records the
\* requests in flight at that moment (history, read by no handler).
Begin(r, rec) ==
  [q \in Slots |->
     IF q = r
       THEN [rec EXCEPT !.peers = {x \in Slots \ {r} : Running(x)}]
       ELSE [req[q] EXCEPT !.peers = @ \ {r}]]

\* The server takes requests once a startup has run create_tables.
Up == boot.runs >= 1

\* What the slot's connection reads: its open transaction, else the
\* committed store.
View(r) == IF req[r].tx = <<>> THEN db ELSE req[r].tx[1]

\* cursor.execute of an INSERT whose outcome is res.  The statement waits
\* while another connection holds the write lock (sqlite3's busy handler).
\* An IntegrityError leaves the handler: nothing after it runs, the
\* connection stays open with its transaction.
Execute(r, res, next) ==
  LET t == ImplicitTransaction(db, res.db)
  IN /\ lock \in {NoLock, r}
     /\ db' = t.db
     /\ lock' = IF t.tx = <<>> THEN NoLock ELSE r
     /\ req' = [req EXCEPT ![r] =
                  IF res.ok
                    THEN [next EXCEPT !.tx = t.tx, !.lastrowid = res.lastrowid]
                    ELSE [@ EXCEPT !.tx = t.tx, !.pc = "faulted",
                                   !.exc = "IntegrityError"]]

\* conn.commit(); conn.close(); return resp
CommitClose(r, resp) ==
  /\ db' = View(r)
  /\ lock' = IF lock = r THEN NoLock ELSE lock
  /\ req' = [req EXCEPT ![r] =
               [@ EXCEPT !.tx = <<>>, !.conn = "closed", !.resp = <<resp>>,
                         !.pc = IF resp.raised THEN "faulted" ELSE "done",
                         !.exc = IF resp.raised THEN resp.template ELSE ""]]

\* conn.close(); return resp
Close(r, resp) ==
  /\ req' = [req EXCEPT ![r] =
               [@ EXCEPT !.conn = "closed", !.resp = <<resp>>,
                         !.pc = IF resp.raised THEN "faulted" ELSE "done",
                         !.exc = IF resp.raised THEN resp.template ELSE ""]]
  /\ UNCHANGED <<db, lock>>

\* ---- GET /trainers
StartList(r) ==
  /\ Up /\ Free(r) /\ issued < MaxOps
  /\ req' = Begin(r, [Idle EXCEPT !.pc = "list_select", !.kind = "list",
                            !.conn = "open"])
  /\ issued' = issued + 1
  /\ UNCHANGED <<db, lock, boot>>

ListSelect(r) ==
  /\ req[r].pc = "list_select"
  /\ req' = [req EXCEPT ![r] = [@ EXCEPT !.row = <<View(r).trainers>>,
                                         !.pc = "list_return"]]
  /\ UNCHANGED <<db, lock, boot, issued>>

ListReturn(r) ==
  /\ req[r].pc = "list_return"
  /\ Close(r, Template("trainer_list.html", req[r].row[1]))
  /\ UNCHANGED <<boot, issued>>

\* ---- POST /register_trainer
RegisterArgs(form) ==
  [name |-> Get(form, "name", ""), sport |-> Get(form, "sport", ""),
   credentials |-> Get(form, "credentials", ""), bio |-> Get(form, "bio", ""),
   price |-> PriceVal(Get(form, "price", <<"0">>)),
   email |-> Get(form, "email", ""), phone |-> Get(form, "phone", "")]

StartRegister(r, form) ==
  /\ Up /\ Free(r) /\ issued < MaxOps
  /\ req' = Begin(r, [Idle EXCEPT !.pc = "reg_insert", !.kind = "register",
                            !.args = RegisterArgs(form), !.conn = "open"])
  /\ issued' = issued + 1
  /\ UNCHANGED <<db, lock, boot>>

RegInsert(r) ==
  /\ req[r].pc = "reg_insert"
  /\ Execute(r, InsertTrainer(View(r), req[r].args),
             [req[r] EXCEPT !.pc = "reg_commit"])
  /\ UNCHANGED <<boot, issued>>

RegCommit(r) ==
  /\ req[r].pc = "reg_commit"
  /\ CommitClose(r, Redirect("/trainers"))
  /\ UNCHANGED <<boot, issued>>

\* ---- GET /book/{trainer_id}
\* The handler without its "if trainer is None": trainer['name'] raises.
FormResponseUnchecked(trainer) ==
  IF trainer = <<>> THEN Raised("TypeError")
  ELSE Template("booking.html", trainer[1])

\* if trainer is None: redirect, else the booking form
FormResponse(trainer) ==
  IF trainer = <<>> THEN Redirect("/trainers")
  ELSE Template("booking.html", trainer[1])

StartForm(r, trainer_id) ==
  /\ Up /\ Free(r) /\ issued < MaxOps
  /\ req' = Begin(r, [Idle EXCEPT !.pc = "form_select", !.kind = "form",
                            !.trainer_id = trainer_id, !.conn = "open"])
  /\ issued' = issued + 1
  /\ UNCHANGED <<db, lock, boot>>

FormSelect(r) ==
  /\ req[r].pc = "form_select"
  /\ req' = [req EXCEPT ![r] =
               [@ EXCEPT !.row = SelectTrainer(View(r), req[r].trainer_id),
                         !.pc = "form_return"]]
  /\ UNCHANGED <<db, lock, boot, issued>>

FormReturn(r) ==
  /\ req[r].pc = "form_return"
  /\ Close(r, FormResponse(req[r].row))
  /\ UNCHANGED <<boot, issued>>

\* ---- POST /book/{trainer_id}
BookArgs(form) ==
  [parent_name |-> Get(form, "parent_name", ""),
   parent_email |-> Get(form, "parent_email", ""),
   parent_phone |-> Get(form, "parent_phone", ""),
   date |-> Get(form, "date", ""), time_val |-> Get(form, "time", ""),
   notes |-> Get(form, "notes", "")]

StartBook(r, trainer_id, form) ==
  /\ Up /\ Free(r) /\ issued < MaxOps
  /\ req' = Begin(r, [Idle EXCEPT !.pc = "book_select", !.kind = "book",
                            !.trainer_id = trainer_id,
                            !.args = BookArgs(form), !.conn = "open"])
  /\ issued' = issued + 1
  /\ UNCHANGED <<db, lock, boot>>

\* The lookup, and the branch on its result.
BookSelect(r) ==
  /\ req[r].pc = "book_select"
  /\ LET row == SelectParent(View(r), req[r].args.parent_email,
                             req[r].args.parent_phone)
     IN req' = [req EXCEPT ![r] =
                  IF row # <<>>
                    THEN [@ EXCEPT !.row = row, !.parent_id = row[1],
                                   !.pc = "book_insert_booking"]
                    ELSE [@ EXCEPT !.row = row, !.pc = "book_insert_parent"]]
  /\ UNCHANGED <<db, lock, boot, issued>>

BookInsertParent(r) ==
  /\ req[r].pc = "book_insert_parent"
  /\ LET res == InsertParent(View(r), req[r].args.parent_name,
                             req[r].args.parent_email, req[r].args.parent_phone)
     IN Execute(r, res, [req[r] EXCEPT !.parent_id = res.lastrowid,
                                       !.pc = "book_insert_booking"])
  /\ UNCHANGED <<boot, issued>>

BookInsertBooking(r) ==
  /\ req[r].pc = "book_insert_booking"
  /\ Execute(r, InsertBooking(View(r), req[r].parent_id, req[r].trainer_id,
                              req[r].args.date, req[r].args.time_val,
                              req[r].args.notes),
             [req[r] EXCEPT !.pc = "book_commit"])
  /\ UNCHANGED <<boot, issued>>

BookCommit(r) ==
  /\ req[r].pc = "book_commit"
  /\ CommitClose(r, Redirect("/thank_you"))
  /\ UNCHANGED <<boot, issued>>

\* ---- a connection no handler closed
\* The interpreter reclaims the connection object some time after the
\* exception has left the handler; that closes it and rolls back what it
\* had not committed.
Finalize(r) ==
  /\ req[r].pc = "faulted" /\ req[r].conn = "open"
  /\ req' = [req EXCEPT ![r] = [@ EXCEPT !.conn = "closed", !.tx = <<>>]]
  /\ lock' = IF lock = r THEN NoLock ELSE lock
  /\ UNCHANGED <<db, boot, issued>>

\* ---- create_tables, run by on_startup
Startup ==
  /\ boot.pc = "idle"
  /\ boot.runs = 0 \/ issued < MaxOps
  /\ boot' = [boot EXCEPT !.pc = "create_trainers"]
  /\ issued' = IF boot.runs = 0 THEN issued ELSE issued + 1
  /\ UNCHANGED <<db, lock, req>>

\* One CREATE TABLE IF NOT EXISTS; sqlite3 opens no transaction for it, so
\* it is committed as it runs.
CreateTable(at, name, next) ==
  /\ boot.pc = at
  /\ HasTable(db, name) \/ lock = NoLock
  /\ db' = CreateTableIfNotExists(db, name)
  /\ boot' = [boot EXCEPT !.pc = next]
  /\ UNCHANGED <<lock, req, issued>>

CreateTrainers == CreateTable("create_trainers", "trainers", "create_parents")
CreateParents == CreateTable("create_parents", "parents", "create_bookings")
CreateBookings == CreateTable("create_bookings", "bookings", "create_commit")

\* conn.commit(); conn.close()
CreateCommit ==
  /\ boot.pc = "create_commit"
  /\ boot' = [boot EXCEPT !.pc = "idle", !.runs = @ + 1]
  /\ UNCHANGED <<db, lock, req, issued>>

\* ---------------------------------------------------------- specification
Init ==
  /\ db = EmptyStore
  /\ lock = NoLock
  /\ req = [r \in Slots |-> Idle]
  /\ boot = [pc |-> "idle", runs |-> 0]
  /\ issued = 0

Next ==
  \/ Startup
  \/ CreateTrainers
  \/ CreateParents
  \/ CreateBookings
  \/ CreateCommit
  \/ \E r \in Slots : StartList(r)
  \/ \E r \in Slots : ListSelect(r)
  \/ \E r \in Slots : ListReturn(r)
  \/ \E r \in Slots, form \in RegisterForms : StartRegister(r, form)
  \/ \E r \in Slots : RegInsert(r)
  \/ \E r \in Slots : RegCommit(r)
  \/ \E r \in Slots, t \in PathIds : StartForm(r, t)
  \/ \E r \in Slots : FormSelect(r)
  \/ \E r \in Slots : FormReturn(r)
  \/ \E r \in Slots, t \in PathIds, form \in BookForms : StartBook(r, t, form)
  \/ \E r \in Slots : BookSelect(r)
  \/ \E r \in Slots : BookInsertParent(r)
  \/ \E r \in Slots : BookInsertBooking(r)
  \/ \E r \in Slots : BookCommit(r)
  \/ \E r \in Slots : Finalize(r)

Spec == Init /\ [][Next]_vars

\* ----------------------------------------------------------------- claims
\* Every store a connection can read: the committed one and each open
\* transaction.
Views == {db} \cup {req[r].tx[1] : r \in {q \in Slots : req[q].tx # <<>>}}

SamePair(p, a) == p.email = a.parent_email /\ p.phone = a.parent_phone

UniquePairs(d) ==
  \A p, q \in d.parents :
    (p.email = q.email /\ p.phone = q.phone) => p = q

EndedAs(r, kind) == req[r].kind = kind /\ req[r].pc \in {"done", "faulted"}

\* ---- C1
\* A parent insert faults exactly when a committed Parent row has the
\* submitted pair; the fault changes no table, leaves nothing pending on
\* the connection, and reclaiming the connection changes no table either.
C1_Step ==
  \A r \in Slots :
    /\ (req[r].pc = "book_insert_parent" /\ req'[r].pc # req[r].pc) =>
         IF \E p \in db.parents : SamePair(p, req[r].args)
           THEN /\ req'[r].pc = "faulted"
                /\ req'[r].exc = "IntegrityError"
                /\ db' = db
                /\ \A i \in 1..Len(req'[r].tx) :
                     /\ req'[r].tx[i].parents = db.parents
                     /\ req'[r].tx[i].bookings = db.bookings
           ELSE req'[r].pc = "book_insert_booking"
    /\ (req[r].pc = "faulted" /\ req[r].conn = "open"
          /\ req'[r].conn = "closed") => db' = db

\* C1: no two rows of parents, committed or pending, have the same
\* (email, phone) pair, and a booking submission whose parent insert would
\* duplicate a pair ends in an IntegrityError and adds neither a Parent nor
\* a Booking row.
C1_Thm == [](\A d \in Views : UniquePairs(d)) /\ [][C1_Step]_vars

\* A booking submission has looked up a pair, found no row, and faulted on
\* its parent insert because another submission committed the pair first.
C1_Witness ==
  \E r \in Slots :
    /\ EndedAs(r, "book") /\ req[r].pc = "faulted" /\ req[r].row = <<>>
    /\ req[r].exc = "IntegrityError"
    /\ \E p \in db.parents : SamePair(p, req[r].args)

\* ---- C2
C2_Step ==
  \A r \in Slots :
    /\ (req[r].pc = "book_select" /\ req'[r].pc # "book_select") =>
         \A p \in db.parents :
           SamePair(p, req[r].args) =>
             /\ req'[r].row # <<>>
             /\ req'[r].parent_id = p.id
             /\ req'[r].pc = "book_insert_booking"
             /\ db' = db
    /\ (req[r].pc = "book_commit" /\ req'[r].pc = "done") =>
         LET own == {p \in db'.parents : SamePair(p, req[r].args)}
             new == db'.bookings \ db.bookings
         IN /\ Cardinality(own) = 1
            /\ Cardinality(new) = 1
            /\ \A b \in new : \A p \in own : b.parent_id = p.id
            /\ req[r].row # <<>> => db'.parents = db.parents

\* C2: a booking submission whose lookup finds a Parent row with the
\* submitted pair takes that row's identity as the booking's parent_id and
\* commits the parents table unchanged (no row added, stored name kept);
\* after any committed submission exactly one Parent row has its pair and
\* the new Booking row references it.
C2_Thm == [][C2_Step]_vars

\* A committed submission reused a Parent row stored under another name.
C2_Witness ==
  \E r \in Slots :
    /\ EndedAs(r, "book") /\ req[r].pc = "done" /\ req[r].row # <<>>
    /\ \E p \in db.parents :
         /\ p.id = req[r].parent_id
         /\ SamePair(p, req[r].args)
         /\ p.name # req[r].args.parent_name

\* ---- C3
\* C3: every Booking row, committed or pending, references an existing
\* Parent row and an existing Trainer row.
C3_Claim ==
  \A d \in Views :
    \A b \in d.bookings :
      /\ \E p \in d.parents : p.id = b.parent_id
      /\ \E t \in d.trainers : t.id = b.trainer_id

\* ---- C4
\* C4: every registration submission that has ended was answered with the
\* 303 redirect to /trainers and its Trainer row, under the identity the
\* insert returned, is stored with the price it submitted.
C4_Claim ==
  \A r \in Slots :
    EndedAs(r, "register") =>
      /\ req[r].pc = "done"
      /\ req[r].resp = <<Redirect("/trainers")>>
      /\ \E t \in db.trainers :
           t.id = req[r].lastrowid /\ t.price = req[r].args.price

\* ---- C5
C5_Step ==
  \A r \in Slots :
    /\ (req'[r].kind = "form" /\ req'[r].pc # req[r].pc) =>
         db' = db /\ lock' = lock
    /\ (req[r].pc = "form_select" /\ req'[r].pc # "form_select") =>
         /\ req'[r].row = <<>> <=>
              ~ \E t \in db.trainers : t.id = req[r].trainer_id
         /\ \A i \in 1..Len(req'[r].row) :
              /\ req'[r].row[i] \in db.trainers
              /\ req'[r].row[i].id = req[r].trainer_id
    /\ (req[r].pc = "form_return" /\ req'[r].pc # "form_return") =>
         /\ req'[r].pc = "done"
         /\ req'[r].conn = "closed"
         /\ req'[r].resp =
              IF req[r].row = <<>> THEN <<Redirect("/trainers")>>
              ELSE <<Template("booking.html", req[r].row[1])>>

\* C5: GET /book/{trainer_id} leaves the store unchanged, never raises,
\* answers 303 to /trainers when its lookup matches no Trainer row, and
\* returns the booking form of exactly the matching row otherwise.
C5_Thm == [][C5_Step]_vars

\* One form request was redirected for an unknown identity and another got
\* the form of an existing trainer.
C5_Witness ==
  \E r, q \in Slots :
    /\ EndedAs(r, "form") /\ req[r].resp = <<Redirect("/trainers")>>
    /\ EndedAs(q, "form") /\ req[q].pc = "done"
    /\ req[q].resp[1].status = 200
    /\ req[q].resp[1].data[1].id = req[q].trainer_id

\* ---- C6
Concurrent(r, q) == r \in req[q].peers \/ q \in req[r].peers

\* Two concurrent booking submissions for the same trainer, date and time,
\* both ended.
SameSlotPair(r, q) ==
  /\ r # q /\ Concurrent(r, q)
  /\ EndedAs(r, "book") /\ EndedAs(q, "book")
  /\ req[r].trainer_id = req[q].trainer_id
  /\ req[r].args.date = req[q].args.date
  /\ req[r].args.time_val = req[q].args.time_val

\* Redirected to /thank_you, with its own committed Booking row.
Accepted(r) ==
  /\ req[r].pc = "done"
  /\ req[r].resp = <<Redirect("/thank_you")>>
  /\ \E b \in db.bookings :
       /\ b.id = req[r].lastrowid
       /\ b.trainer_id = req[r].trainer_id
       /\ b.parent_id = req[r].parent_id
       /\ b.date = req[r].args.date
       /\ b.time = req[r].args.time_val

\* The lookup found no row, and the Parent row of the pair is another
\* submission's.
InsertRaced(r) ==
  /\ req[r].row = <<>>
  /\ \E p \in db.parents : SamePair(p, req[r].args) /\ p.id # req[r].parent_id

\* C6 as claimed: two concurrent booking submissions for the same trainer,
\* date and time are both accepted, each with its own Booking row.
C6_Claim ==
  \A r, q \in Slots :
    SameSlotPair(r, q) =>
      /\ Accepted(r) /\ Accepted(q)
      /\ req[r].lastrowid # req[q].lastrowid

\* C6 as amended: each of two concurrent booking submissions for the same
\* trainer, date and time is accepted, with its own Booking row, unless its
\* lookup found no Parent row and another submission committed a Parent row
\* with its pair first; that one ends in an IntegrityError.
C6_Thm ==
  \A r, q \in Slots :
    SameSlotPair(r, q) =>
      /\ IF InsertRaced(r)
           THEN req[r].pc = "faulted" /\ req[r].exc = "IntegrityError"
           ELSE Accepted(r)
      /\ (Accepted(r) /\ Accepted(q)) => req[r].lastrowid # req[q].lastrowid

\* Two concurrent submissions for the same trainer, date and time, carrying
\* the same pair, were both accepted.
C6_Witness ==
  \E r, q \in Slots :
    /\ SameSlotPair(r, q) /\ Accepted(r) /\ Accepted(q)
    /\ req[r].args.parent_email = req[q].args.parent_email
    /\ req[r].args.parent_phone = req[q].args.parent_phone

\* ---- C7
\* C7: no request whose handler has returned or raised has its connection
\* still open.
C7_Claim ==
  \A r \in Slots : ~ Running(r) => req[r].conn # "open"

\* ---- C8
Occurrences(tables, name) ==
  Cardinality({i \in 1..Len(tables) : tables[i] = name})

OneSetOfTables(d) ==
  /\ Len(d.tables) = Len(TableNames)
  /\ \A i \in 1..Len(TableNames) : Occurrences(d.tables, TableNames[i]) = 1

C8_Step ==
  boot' # boot =>
    /\ db'.trainers = db.trainers
    /\ db'.parents = db.parents
    /\ db'.bookings = db.bookings
    /\ db'.seq = db.seq
    /\ boot.runs >= 1 => db' = db
    /\ boot'.runs > boot.runs => OneSetOfTables(db')

\* C8: once create_tables has run, the store holds exactly one trainers,
\* one parents and one bookings table; no step of any run adds, removes or
\* changes a row, and a run after the first changes nothing at all.
C8_Thm == [](boot.runs >= 1 => OneSetOfTables(db)) /\ [][C8_Step]_vars

\* A run of create_tables after the first has executed its three
\* statements on a store that holds rows in all three tables.
C8_Witness ==
  /\ boot.pc = "create_commit" /\ boot.runs >= 1
  /\ db.trainers # {} /\ db.parents # {} /\ db.bookings # {}

\* ---- C9
NonNegative(v) == v.kind = "real" /\ v.m >= 0

\* C9: the stored price of every committed Trainer row is a non-negative
\* number.
C9_Claim ==
  \A t \in db.trainers : NonNegative(t.price)

\* ---- C10
\* C10: every committed Parent row is referenced by a committed Booking row.
C10_Thm ==
  \A p \in db.parents : \E b \in db.bookings : b.parent_id = p.id

\* A submission has inserted its Parent row and not yet its Booking row,
\* while the committed store already holds a Parent row.
C10_Witness ==
  /\ db.parents # {}
  /\ \E r \in Slots :
       /\ req[r].pc = "book_insert_booking" /\ req[r].row = <<>>
       /\ req[r].tx # <<>>

====
